---- MODULE Spec2Model ----
(***************************************************************************)
(* Model of src/scripts/clean.py, the workspace cleaner, and of the        *)
(* in-memory repository of src/example_app/adapters/outbound.              *)
(*                                                                         *)
(* A file or directory name is a sequence of one-character strings, so     *)
(* that startswith / endswith / fnmatch are computed character by          *)
(* character as the code computes them.  A path is the sequence of the     *)
(* names below the project root (the root itself is the empty path).       *)
(* The filesystem is a function from the existing paths to their kind and  *)
(* size.                                                                   *)
(***************************************************************************)
EXTENDS Integers, Sequences, FiniteSets, TLC

(***************************************************************************)
(* Bounds of the model.                                                    *)
(***************************************************************************)
MaxNodes == 3      \* entries below the root in the initial tree
MaxDepth == 3      \* longest path below the root
MaxRuns == 2       \* successive invocations of clean()
MaxChunks == 3     \* pieces concatenated into a probe name for should_preserve
MaxOps == 4        \* operations called on one InMemoryRepository

(***************************************************************************)
(* Pattern tables, src/scripts/clean.py:19-57.                             *)
(***************************************************************************)
DIRS_TO_CLEAN ==
    << <<"_", "_", "p", "y", "c", "a", "c", "h", "e", "_", "_">>,
       <<".", "p", "y", "t", "e", "s", "t", "_", "c", "a", "c", "h", "e">>,
       <<".", "m", "y", "p", "y", "_", "c", "a", "c", "h", "e">>,
       <<".", "r", "u", "f", "f", "_", "c", "a", "c", "h", "e">>,
       <<".", "h", "y", "p", "o", "t", "h", "e", "s", "i", "s">>,
       <<".", "t", "o", "x">>,
       <<".", "n", "o", "x">>,
       <<"b", "u", "i", "l", "d">>,
       <<"d", "i", "s", "t">>,
       <<"w", "h", "e", "e", "l", "s">>,
       <<"h", "t", "m", "l", "c", "o", "v">>,
       <<"*", ".", "e", "g", "g", "-", "i", "n", "f", "o">> >>

FILES_TO_CLEAN ==
    << <<"*", ".", "p", "y", "c">>,
       <<"*", ".", "p", "y", "o">>,
       <<"*", ".", "p", "y", "d">>,
       <<".", "c", "o", "v", "e", "r", "a", "g", "e">>,
       <<"c", "o", "v", "e", "r", "a", "g", "e", ".", "x", "m", "l">>,
       <<"*", ".", "c", "o", "v", "e", "r">>,
       <<"*", ".", "p", "y", ",", "c", "o", "v", "e", "r">> >>

PRESERVE_PATTERNS ==
    << <<".", "e", "n", "v">>,
       <<".", "e", "n", "v", ".", "*">>,
       <<".", "e", "n", "v", "r", "c">>,
       <<".", "p", "y", "t", "h", "o", "n", "-", "v", "e", "r", "s", "i", "o", "n">>,
       <<".", "t", "o", "o", "l", "-", "v", "e", "r", "s", "i", "o", "n", "s">>,
       <<".", "e", "d", "i", "t", "o", "r", "c", "o", "n", "f", "i", "g">>,
       <<".", "v", "s", "c", "o", "d", "e">>,
       <<".", "i", "d", "e", "a">>,
       <<"*", ".", "l", "o", "c", "a", "l">>,
       <<"*", ".", "l", "o", "c", "a", "l", ".", "*">> >>

\* the name ".venv" that lines 103, 113 and 134 test for
VENV == <<".", "v", "e", "n", "v">>

(***************************************************************************)
(* Python str operations on names.                                         *)
(***************************************************************************)
Range(s) == { s[i] : i \in 1..Len(s) }

\* name.startswith(prefix)
StartsWith(name, prefix) ==
    /\ Len(prefix) <= Len(name)
    /\ SubSeq(name, 1, Len(prefix)) = prefix

\* name.endswith(suffix)
EndsWith(name, suffix) ==
    /\ Len(suffix) <= Len(name)
    /\ SubSeq(name, Len(name) - Len(suffix) + 1, Len(name)) = suffix

\* index of the first "*" of pattern (pattern contains one)
FirstStar(pattern) ==
    CHOOSE i \in 1..Len(pattern) :
        /\ pattern[i] = "*"
        /\ \A j \in 1..(i - 1) : pattern[j] # "*"

\* pattern.split("*", 1): the text before and after the first "*"
SplitStar(pattern) ==
    [prefix |-> SubSeq(pattern, 1, FirstStar(pattern) - 1),
     suffix |-> SubSeq(pattern, FirstStar(pattern) + 1, Len(pattern))]

\* one iteration of the loop of should_preserve: does this pattern keep name?
PreserveMatch(pattern, name) ==
    IF StartsWith(pattern, <<"*", ".">>)
    THEN EndsWith(name, Tail(pattern))
    ELSE IF "*" \in Range(pattern)
         THEN /\ StartsWith(name, SplitStar(pattern).prefix)
              /\ EndsWith(name, SplitStar(pattern).suffix)
         ELSE name = pattern

\* should_preserve(path), applied to path.name
should_preserve(name) ==
    \E i \in 1..Len(PRESERVE_PATTERNS) : PreserveMatch(PRESERVE_PATTERNS[i], name)

\* fnmatch of one name against one pattern, as Path.rglob matches the last
\* component: "*" stands for any, possibly empty, run of characters (a
\* leading dot included), every other character of these tables for itself.
RECURSIVE Fnmatch(_, _)
Fnmatch(pattern, name) ==
    IF pattern = <<>> THEN name = <<>>
    ELSE IF Head(pattern) = "*"
         THEN \/ Fnmatch(Tail(pattern), name)
              \/ /\ name # <<>>
                 /\ Fnmatch(pattern, Tail(name))
         ELSE /\ name # <<>>
              /\ Head(name) = Head(pattern)
              /\ Fnmatch(Tail(pattern), Tail(name))

(***************************************************************************)
(* Paths and their order.                                                  *)
(***************************************************************************)
CodePoint ==
    ("*" :> 42) @@ ("," :> 44) @@ ("-" :> 45) @@ ("." :> 46) @@ ("_" :> 95) @@
    ("a" :> 97) @@ ("b" :> 98) @@ ("c" :> 99) @@ ("d" :> 100) @@ ("e" :> 101) @@
    ("f" :> 102) @@ ("g" :> 103) @@ ("h" :> 104) @@ ("i" :> 105) @@ ("j" :> 106) @@
    ("k" :> 107) @@ ("l" :> 108) @@ ("m" :> 109) @@ ("n" :> 110) @@ ("o" :> 111) @@
    ("p" :> 112) @@ ("q" :> 113) @@ ("r" :> 114) @@ ("s" :> 115) @@ ("t" :> 116) @@
    ("u" :> 117) @@ ("v" :> 118) @@ ("w" :> 119) @@ ("x" :> 120) @@ ("y" :> 121) @@
    ("z" :> 122)

\* a < b for two str: the first differing code point decides, a proper
\* prefix is smaller
RECURSIVE StrLess(_, _)
StrLess(a, b) ==
    IF b = <<>> THEN FALSE
    ELSE IF a = <<>> THEN TRUE
    ELSE IF Head(a) = Head(b) THEN StrLess(Tail(a), Tail(b))
    ELSE CodePoint[Head(a)] < CodePoint[Head(b)]

\* p < q for two Path: the lists of parts compared part by part
RECURSIVE PathLess(_, _)
PathLess(p, q) ==
    IF q = <<>> THEN FALSE
    ELSE IF p = <<>> THEN TRUE
    ELSE IF Head(p) = Head(q) THEN PathLess(Tail(p), Tail(q))
    ELSE StrLess(Head(p), Head(q))

\* sorted(set(result))
RECURSIVE Sorted(_)
Sorted(S) ==
    IF S = {} THEN <<>>
    ELSE LET m == CHOOSE x \in S : \A y \in S \ {x} : PathLess(x, y)
         IN <<m>> \o Sorted(S \ {m})

\* path.name
BaseName(p) == p[Len(p)]

\* file_path.relative_to(d) succeeds: the parts of d begin the parts of p
RelativeTo(p, d) ==
    /\ Len(d) <= Len(p)
    /\ SubSeq(p, 1, Len(d)) = d

(***************************************************************************)
(* The filesystem: fs maps every existing path below the root to           *)
(* [kind |-> "dir" or "file", size |-> st_size].                           *)
(***************************************************************************)
Exists(fs, p) == p \in DOMAIN fs

\* d.is_dir()
IsDir(fs, p) == Exists(fs, p) /\ fs[p].kind = "dir"

\* f.is_file()
IsFile(fs, p) == Exists(fs, p) /\ fs[p].kind = "file"

\* the existing paths strictly below p
Below(fs, p) == { q \in DOMAIN fs : q # p /\ RelativeTo(q, p) }

\* variant of Rglob: root.glob(pattern), entries of the root only
Rglob_glob(fs, pattern) ==
    { p \in DOMAIN fs : Len(p) = 1 /\ Fnmatch(pattern, BaseName(p)) }

\* root.rglob(pattern): every entry below the root whose name matches
Rglob(fs, pattern) == { p \in DOMAIN fs : Fnmatch(pattern, BaseName(p)) }

\* the raw hits of the loop over a pattern table
RglobAll(fs, table) ==
    UNION { Rglob(fs, table[i]) : i \in 1..Len(table) }

\* ".venv" in d.parts, for a project root that does not itself lie under a
\* directory named .venv
InVenv(p) == VENV \in Range(p)

\* variant of DirVenvSkip: the directory filter forgets .venv
DirVenvSkip_never(include_venv, d) == FALSE

\* the .venv test of the directory filter (lines 112-114)
DirVenvSkip(include_venv, d) == ~include_venv /\ InVenv(d)

\* the .venv test of the file filter (lines 133-135)
FileVenvSkip(f) == InVenv(f)

\* find_dirs_to_clean(root, include_venv)
find_dirs_to_clean(fs, include_venv) ==
    LET venv_path == <<VENV>>
        dirs_found ==
            RglobAll(fs, DIRS_TO_CLEAN)
              \cup (IF include_venv /\ Exists(fs, venv_path)
                    THEN {venv_path} ELSE {})
        result ==
            { d \in dirs_found :
                /\ ~should_preserve(BaseName(d))
                /\ ~DirVenvSkip(include_venv, d)
                /\ IsDir(fs, d) }
    IN Sorted(result)

\* find_files_to_clean(root)
find_files_to_clean(fs) ==
    LET files_found == RglobAll(fs, FILES_TO_CLEAN)
        result ==
            { f \in files_found :
                /\ ~should_preserve(BaseName(f))
                /\ ~FileVenvSkip(f)
                /\ IsFile(fs, f) }
    IN Sorted(result)

\* variant of is_inside_any_dir: only the directory that holds the file counts
is_inside_any_dir_parent(file_path, dirs) ==
    \E i \in 1..Len(dirs) : dirs[i] = SubSeq(file_path, 1, Len(file_path) - 1)

\* is_inside_any_dir(file_path, dirs)
is_inside_any_dir(file_path, dirs) ==
    \E i \in 1..Len(dirs) : RelativeTo(file_path, dirs[i])

\* files = [f for f in all_files if not is_inside_any_dir(f, dirs)]
OrphanFiles(all_files, dirs) ==
    SelectSeq(all_files, LAMBDA f : ~is_inside_any_dir(f, dirs))

RECURSIVE SumSizes(_, _)
SumSizes(fs, S) ==
    IF S = {} THEN 0
    ELSE LET p == CHOOSE x \in S : TRUE
         IN fs[p].size + SumSizes(fs, S \ {p})

\* get_dir_size(path): the sizes of the regular files below path; an
\* absent path has nothing below it
get_dir_size(fs, path) ==
    SumSizes(fs, { q \in Below(fs, path) : IsFile(fs, q) })

\* fs without the paths of S
Without(fs, S) == [q \in (DOMAIN fs) \ S |-> fs[q]]

\* S can be what a failing rmtree had removed: whatever goes takes
\* everything below it along
DownClosed(fs, S) == \A q \in S : Below(fs, q) \subseteq S

\* shutil.rmtree(d), lines 207-210.  The outcomes are the filesystem left
\* behind and the error raised, if any.  On an absent path it raises
\* FileNotFoundError.  On an existing directory it removes d and everything
\* below, or a permission / OS error stops it after it removed some of the
\* entries below d, and d stays.
rmtree(fs, d) ==
    IF ~Exists(fs, d)
    THEN { [fs |-> fs, err |-> "ENOENT"] }
    ELSE { [fs |-> Without(fs, {d} \cup Below(fs, d)), err |-> "none"] }
           \cup { [fs |-> Without(fs, S), err |-> "EACCES"] :
                    S \in { T \in SUBSET Below(fs, d) : DownClosed(fs, T) } }

\* f.unlink(), lines 226-229
unlink(fs, f) ==
    IF ~Exists(fs, f)
    THEN { [fs |-> fs, err |-> "ENOENT"] }
    ELSE { [fs |-> Without(fs, {f}), err |-> "none"],
           [fs |-> fs, err |-> "EACCES"] }

\* variant of Deletes: the guard on dry_run is gone
Deletes_always(dry_run) == TRUE

\* the guard "if not dry_run" of lines 206 and 225
Deletes(dry_run) == ~dry_run

(***************************************************************************)
(* format_size, lines 142-149.  The float `size` is an integer number of   *)
(* bytes divided k times by 1024; below 2^53 bytes every such quotient is  *)
(* an exact double, so the float is modelled exactly: the byte count is    *)
(* the sequence of its base-1024 digits, lowest first, and a division by   *)
(* 1024 moves the point one digit up.  The result of the f-string          *)
(* "{size:.1f} {unit}" is the record of the digits before the point, the   *)
(* one digit after it, and the unit.                                       *)
(***************************************************************************)
UNITS == <<"B", "KB", "MB", "GB">>

LAST_UNIT == "TB"

\* the base-1024 digits of a byte count n, lowest first
RECURSIVE ToDigits(_)
ToDigits(n) ==
    IF n < 1024 THEN <<n>> ELSE <<n % 1024>> \o ToDigits(n \div 1024)

\* the integer whose base-1024 digits are ds (for short ds only)
RECURSIVE FromDigits(_)
FromDigits(ds) ==
    IF ds = <<>> THEN 0 ELSE Head(ds) + 1024 * FromDigits(Tail(ds))

\* variant of SizeBelow1024: the test is "size <= 1024"
SizeBelow1024_le(ds, k) ==
    \/ \A i \in (k + 2)..Len(ds) : ds[i] = 0
    \/ /\ k + 2 <= Len(ds)
       /\ ds[k + 2] = 1
       /\ \A i \in 1..Len(ds) : i # k + 2 => ds[i] = 0

\* "size < 1024" after k divisions: no digit above position k+1 is set
SizeBelow1024(ds, k) == \A i \in (k + 2)..Len(ds) : ds[i] = 0

\* the whole part of the float after k divisions
WholePart(ds, k) == FromDigits(SubSeq(ds, k + 1, Len(ds)))

\* add the carry c into the digit values vs (lowest first) and bring every
\* one back below 1024; carry is what runs over the top
RECURSIVE Carry(_, _)
Carry(vs, c) ==
    IF vs = <<>> THEN [carry |-> c, rest |-> <<>>]
    ELSE LET v == Head(vs) + c
             up == Carry(Tail(vs), v \div 1024)
         IN [carry |-> up.carry, rest |-> <<v % 1024>> \o up.rest]

\* the float after k divisions (k below the number of digits), in tenths,
\* rounded as "%.1f" rounds: to the nearest tenth, an exact tie to the
\* even one
Tenths(ds, k) ==
    LET frac == SubSeq(ds, 1, k)
        t == Carry([i \in 1..k |-> 10 * frac[i]], 0)
        floor10 == 10 * WholePart(ds, k) + t.carry
        lowzero == \A i \in 1..(k - 1) : t.rest[i] = 0
        cmp == IF k = 0 THEN "below"
               ELSE IF t.rest[k] > 512 THEN "above"
               ELSE IF t.rest[k] < 512 THEN "below"
               ELSE IF lowzero THEN "tie" ELSE "above"
    IN IF cmp = "above" THEN floor10 + 1
       ELSE IF cmp = "tie" /\ floor10 % 2 = 1 THEN floor10 + 1
       ELSE floor10

\* the number of divisions format_size makes before it returns: the first
\* of the four units at which size < 1024, else all four (TB)
UnitIndex(ds) ==
    IF \E k \in 0..(Len(UNITS) - 1) : SizeBelow1024(ds, k)
    THEN CHOOSE k \in 0..(Len(UNITS) - 1) :
            /\ SizeBelow1024(ds, k)
            /\ \A j \in 0..(k - 1) : ~SizeBelow1024(ds, j)
    ELSE Len(UNITS)

\* format_size(size_bytes), size_bytes given by its digits
format_size(ds) ==
    LET k == UnitIndex(ds)
        t == Tenths(ds, k)
    IN [whole |-> t \div 10,
        tenth |-> t % 10,
        unit |-> IF k < Len(UNITS) THEN UNITS[k + 1] ELSE LAST_UNIT]

(***************************************************************************)
(* State.                                                                  *)
(***************************************************************************)
VARIABLES
    disk,          \* the filesystem below the project root
    pc,            \* where the invocation is: "idle", "dirs", "files",
                   \* "summary", "done"; "raised" if an exception escaped
    dry_run,       \* argument of clean(): --dry-run on the command line
    include_venv,  \* argument of clean(): --all on the command line
    dirs,          \* local of clean(): the directory candidates, sorted
    all_files,     \* local of clean(): the file candidates, sorted
    files,         \* local of clean(): the orphan file candidates, sorted
    idx,           \* position of the running for loop in dirs or files
    total_size,    \* local of clean()
    out,           \* what this invocation printed, line by line
    calls,         \* the rmtree / unlink calls this invocation made
    disk0,         \* the filesystem when this invocation started
    history,       \* one record per finished invocation
    arg,           \* argument of a function called on its own
    ret,           \* and its result
    _storage,      \* InMemoryRepository._storage: the dict, as the sequence
                   \* of its <<key, value>> items in insertion order
    ops            \* the operations called on the repository so far

vars == <<ops, _storage, disk, pc, dry_run, include_venv, dirs, all_files, files,
          idx, total_size, out, calls, disk0, history, arg, ret>>

(***************************************************************************)
(* Initial trees: every tree of at most MaxNodes entries, at most MaxDepth *)
(* deep, built from the entries of ENTRIES.  Only directories have entries *)
(* below them, and no two entries of a directory have the same name.       *)
(***************************************************************************)
FILE_SIZE == 10

Dir(name) == [name |-> name, kind |-> "dir", size |-> 0]

File(name) == [name |-> name, kind |-> "file", size |-> FILE_SIZE]

ENTRIES ==
    { Dir(<<"b", "u", "i", "l", "d">>),
      Dir(<<".", "e", "n", "v", ".", "e", "g", "g", "-", "i", "n", "f", "o">>),
      Dir(<<".", "v", "e", "n", "v">>),
      File(<<".", "v", "e", "n", "v">>),
      File(<<"a", ".", "p", "y", "c">>),
      File(<<".", "e", "n", "v">>),
      File(<<".", "e", "n", "v", ".", "p", "y", "c">>),
      File(<<"k", ".", "l", "o", "c", "a", "l", ".", "p", "y", "c">>) }

\* tree t with one more entry in the root or in one of its directories
Grown(t) ==
    { t @@ (Append(parent, e.name) :> [kind |-> e.kind, size |-> e.size]) :
        parent \in { q \in {<<>>} \cup { r \in DOMAIN t : t[r].kind = "dir" } :
                       Len(q) < MaxDepth },
        e \in ENTRIES }

EmptyTree == [q \in {} |-> [kind |-> "dir", size |-> 0]]

RECURSIVE Trees(_)
Trees(k) ==
    IF k = 0 THEN { EmptyTree }
    ELSE LET smaller == Trees(k - 1)
         IN smaller \cup UNION { Grown(t) : t \in smaller }

\* A behaviour is one command line, run up to MaxRuns times in succession
\* on one tree.  What a run does depends on the tree it finds and on its
\* flags only, and every tree a run leaves behind is itself an initial tree:
\* the runs that follow a run with other flags are the first runs of other
\* behaviours.
Init ==
    /\ disk \in Trees(MaxNodes)
    /\ pc = "idle"
    /\ dry_run \in BOOLEAN
    /\ include_venv \in BOOLEAN
    /\ dirs = <<>>
    /\ all_files = <<>>
    /\ files = <<>>
    /\ idx = 0
    /\ total_size = 0
    /\ out = <<>>
    /\ calls = <<>>
    /\ disk0 = disk
    /\ history = <<>>
    /\ arg = <<>>
    /\ ret = <<>>
    /\ _storage = <<>>
    /\ ops = <<>>

(***************************************************************************)
(* clean(dry_run, include_venv), lines 175-237.                            *)
(***************************************************************************)
\* a deletion raised PermissionError or OSError on a path that was there
Denied(o) ==
    \E i \in 1..Len(o) : o[i].line = "failed" /\ o[i].err = "EACCES"

\* what is kept of a finished invocation: its flags, whether a deletion was
\* refused, and the deletions it called for
Finished(d, a, o, c) ==
    [dry_run |-> d, include_venv |-> a, denied |-> Denied(o), calls |-> c]

\* variant of AfterDir: the loop over files is the else of "if dirs"
AfterDir_elif(ds, fl, i) ==
    IF i < Len(ds) THEN [pc |-> "dirs", idx |-> i + 1]
    ELSE [pc |-> "summary", idx |-> 0]

\* where clean() goes after the i-th directory candidate
AfterDir(ds, fl, i) ==
    IF i < Len(ds) THEN [pc |-> "dirs", idx |-> i + 1]
    ELSE IF fl # <<>> THEN [pc |-> "files", idx |-> 1]
    ELSE [pc |-> "summary", idx |-> 0]

\* where clean() goes after the i-th file candidate
AfterFile(fl, i) ==
    IF i < Len(fl) THEN [pc |-> "files", idx |-> i + 1]
    ELSE [pc |-> "summary", idx |-> 0]

\* variant of AfterDeleteError: the error is not caught
AfterDeleteError_raise(next) == [pc |-> "raised", idx |-> next.idx]

\* the except clauses of lines 209-210 and 228-229: the error is printed
\* and the loop goes on where it would have gone
AfterDeleteError(next) == next

\* lines 175-195: the candidates are computed; with none, "Already clean"
Start ==
    /\ pc \in {"idle", "done"}
    /\ Len(history) < MaxRuns
    /\ dirs' = find_dirs_to_clean(disk, include_venv)
    /\ all_files' = find_files_to_clean(disk)
    /\ files' = OrphanFiles(all_files', dirs')
    /\ total_size' = 0
    /\ calls' = <<>>
    /\ disk0' = disk
    /\ LET banner == IF include_venv THEN <<[line |-> "all_warning"]>> ELSE <<>>
       IN IF dirs' = <<>> /\ files' = <<>>
          THEN /\ out' = Append(banner, [line |-> "already_clean"])
               /\ pc' = "done"
               /\ idx' = 0
               /\ history' = Append(history,
                                    Finished(dry_run, include_venv, <<>>, <<>>))
          ELSE /\ out' = banner
               /\ pc' = IF dirs' # <<>> THEN "dirs" ELSE "files"
               /\ idx' = 1
               /\ history' = history
    /\ UNCHANGED <<disk, dry_run, include_venv, arg, ret, _storage, ops>>

\* lines 200-210: one pass of the loop over dirs
DirStep ==
    /\ pc = "dirs"
    /\ LET d == dirs[idx]
           size == get_dir_size(disk, d)
           listed == Append(out, [line |-> "dir", path |-> d,
                                  size |-> format_size(ToDigits(size))])
           next == AfterDir(dirs, files, idx)
       IN /\ total_size' = total_size + size
          /\ IF Deletes(dry_run)
             THEN \E r \in rmtree(disk, d) :
                    /\ disk' = r.fs
                    /\ calls' = Append(calls, [op |-> "rmtree", path |-> d])
                    /\ IF r.err = "none"
                       THEN /\ out' = listed
                            /\ pc' = next.pc
                            /\ idx' = next.idx
                       ELSE /\ out' = Append(listed, [line |-> "failed",
                                                      path |-> d, err |-> r.err])
                            /\ pc' = AfterDeleteError(next).pc
                            /\ idx' = AfterDeleteError(next).idx
             ELSE /\ out' = listed
                  /\ pc' = next.pc
                  /\ idx' = next.idx
                  /\ UNCHANGED <<disk, calls>>
    /\ UNCHANGED <<dry_run, include_venv, dirs, all_files, files, disk0, history,
                   arg, ret, _storage, ops>>

\* lines 216-229: one pass of the loop over files
FileStep ==
    /\ pc = "files"
    /\ LET f == files[idx]
           statok == Exists(disk, f)
           size == IF statok THEN disk[f].size ELSE 0
           listed == Append(out, [line |-> "file", path |-> f,
                                  size |-> format_size(ToDigits(size))])
           next == AfterFile(files, idx)
       IN /\ total_size' = IF statok THEN total_size + size ELSE total_size
          /\ IF Deletes(dry_run)
             THEN \E r \in unlink(disk, f) :
                    /\ disk' = r.fs
                    /\ calls' = Append(calls, [op |-> "unlink", path |-> f])
                    /\ IF r.err = "none"
                       THEN /\ out' = listed
                            /\ pc' = next.pc
                            /\ idx' = next.idx
                       ELSE /\ out' = Append(listed, [line |-> "failed",
                                                      path |-> f, err |-> r.err])
                            /\ pc' = AfterDeleteError(next).pc
                            /\ idx' = AfterDeleteError(next).idx
             ELSE /\ out' = listed
                  /\ pc' = next.pc
                  /\ idx' = next.idx
                  /\ UNCHANGED <<disk, calls>>
    /\ UNCHANGED <<dry_run, include_venv, dirs, all_files, files, disk0, history,
                   arg, ret, _storage, ops>>

\* lines 232-237: the total is printed and clean() returns
Summary ==
    /\ pc = "summary"
    /\ out' = Append(out, [line |-> IF dry_run THEN "would_free" ELSE "freed",
                           size |-> format_size(ToDigits(total_size))])
    /\ pc' = "done"
    /\ history' = Append(history, Finished(dry_run, include_venv, out, calls))
    /\ UNCHANGED <<disk, dry_run, include_venv, dirs, all_files, files, idx,
                   total_size, calls, disk0, arg, ret, _storage, ops>>

Next ==
    \/ Start
    \/ DirStep
    \/ FileStep
    \/ Summary

Spec == Init /\ [][Next]_vars

(***************************************************************************)
(* should_preserve called on its own, on every name made of at most        *)
(* MaxChunks of the pieces CHUNKS.                                         *)
(***************************************************************************)
CHUNKS ==
    { <<".", "e", "n", "v">>,
      <<".", "l", "o", "c", "a", "l">>,
      <<".", "p", "y", "c">>,
      <<"r", "c">>,
      <<".">>,
      <<"*">>,
      <<"k">> }

RECURSIVE ProbeNames(_)
ProbeNames(k) ==
    IF k = 0 THEN { <<>> }
    ELSE LET shorter == ProbeNames(k - 1)
         IN shorter \cup { n \o c : n \in shorter, c \in CHUNKS }

InitPreserve ==
    /\ arg \in ProbeNames(MaxChunks) \ { <<>> }
    /\ ret = <<>>
    /\ pc = "call"
    /\ disk = EmptyTree
    /\ disk0 = EmptyTree
    /\ dry_run = FALSE
    /\ include_venv = FALSE
    /\ dirs = <<>>
    /\ all_files = <<>>
    /\ files = <<>>
    /\ idx = 0
    /\ total_size = 0
    /\ out = <<>>
    /\ calls = <<>>
    /\ history = <<>>
    /\ _storage = <<>>
    /\ ops = <<>>

CallShouldPreserve ==
    /\ pc = "call"
    /\ ret' = should_preserve(arg)
    /\ pc' = "returned"
    /\ UNCHANGED <<disk, dry_run, include_venv, dirs, all_files, files, idx,
                   total_size, out, calls, disk0, history, arg, _storage, ops>>

NextPreserve == CallShouldPreserve

SpecPreserve == InitPreserve /\ [][NextPreserve]_vars

(***************************************************************************)
(* format_size called on its own.  The byte counts are those of six        *)
(* base-1024 digits taken from DIGITS, the highest one from TOP_DIGITS:    *)
(* all of them are below 2^53.                                             *)
(***************************************************************************)
DIGITS == {0, 1, 10, 256, 1023}

TOP_DIGITS == {0, 1, 7}

SIZES ==
    { <<a, b, c, d, e, f>> :
        a \in DIGITS, b \in DIGITS, c \in DIGITS, d \in DIGITS, e \in DIGITS,
        f \in TOP_DIGITS }

InitFormat ==
    /\ arg \in SIZES
    /\ ret = <<>>
    /\ pc = "call"
    /\ disk = EmptyTree
    /\ disk0 = EmptyTree
    /\ dry_run = FALSE
    /\ include_venv = FALSE
    /\ dirs = <<>>
    /\ all_files = <<>>
    /\ files = <<>>
    /\ idx = 0
    /\ total_size = 0
    /\ out = <<>>
    /\ calls = <<>>
    /\ history = <<>>
    /\ _storage = <<>>
    /\ ops = <<>>

CallFormatSize ==
    /\ pc = "call"
    /\ ret' = format_size(arg)
    /\ pc' = "returned"
    /\ UNCHANGED <<disk, dry_run, include_venv, dirs, all_files, files, idx,
                   total_size, out, calls, disk0, history, arg, _storage, ops>>

NextFormat == CallFormatSize

SpecFormat == InitFormat /\ [][NextFormat]_vars

(***************************************************************************)
(* InMemoryRepository, src/example_app/adapters/outbound/                  *)
(* in_memory_repository.py.  The dict _storage is the sequence of its      *)
(* <<key, value>> items in insertion order, no key twice.  An entity is a  *)
(* record with the attributes id and name of ExampleEntity; the repository *)
(* is generic, and one object of ENTITIES has no attribute id.             *)
(***************************************************************************)
IDS == {"id1", "id2"}

NAMES == {"n1", "n2"}

ENTITIES == [id : IDS, name : NAMES] \cup { [name |-> "n1"] }

None == [none |-> TRUE]

ValueError == [raised |-> "ValueError"]

\* the keys of a dict
Keys(d) == { d[i][1] : i \in DOMAIN d }

\* d.get(key)
Get(d, key) ==
    IF key \in Keys(d)
    THEN d[CHOOSE i \in DOMAIN d : d[i][1] = key][2]
    ELSE None

\* d[key] = value, with every item appended
SetItem_append(d, key, value) == Append(d, <<key, value>>)

\* d[key] = value: a key already there keeps its place and gets the value
SetItem(d, key, value) ==
    IF key \in Keys(d)
    THEN [i \in DOMAIN d |-> IF d[i][1] = key THEN <<key, value>> ELSE d[i]]
    ELSE Append(d, <<key, value>>)

\* del d[key], with the items after it dropped too
DelItem_tail(d, key) ==
    SubSeq(d, 1, (CHOOSE i \in DOMAIN d : d[i][1] = key) - 1)

\* del d[key], for a key of d
DelItem(d, key) == SelectSeq(d, LAMBDA item : item[1] # key)

\* hasattr(entity, "id")
HasId(entity) == "id" \in DOMAIN entity

\* lines 58-69, when it does not raise
_get_entity_id(entity) == entity.id

\* lines 35-37
find_by_id(d, entity_id) == Get(d, entity_id)

\* lines 39-41
find_all(d) == [i \in DOMAIN d |-> d[i][2]]

\* lines 50-52
exists(d, entity_id) == entity_id \in Keys(d)

Called(op, a, r) == [op |-> op, arg |-> a, ret |-> r]

Rest == <<disk, dry_run, include_venv, dirs, all_files, files, idx, total_size,
          out, calls, disk0, history, pc>>

InitRepo ==
    /\ _storage = <<>>
    /\ ops = <<>>
    /\ pc = "repo"
    /\ arg = <<>>
    /\ ret = <<>>
    /\ disk = EmptyTree
    /\ disk0 = EmptyTree
    /\ dry_run = FALSE
    /\ include_venv = FALSE
    /\ dirs = <<>>
    /\ all_files = <<>>
    /\ files = <<>>
    /\ idx = 0
    /\ total_size = 0
    /\ out = <<>>
    /\ calls = <<>>
    /\ history = <<>>

\* lines 29-33; _get_entity_id raises before _storage is touched
save ==
    /\ pc = "repo"
    /\ Len(ops) < MaxOps
    /\ \E entity \in ENTITIES :
         /\ arg' = entity
         /\ IF HasId(entity)
            THEN /\ _storage' = SetItem(_storage, _get_entity_id(entity), entity)
                 /\ ret' = entity
            ELSE /\ _storage' = _storage
                 /\ ret' = ValueError
         /\ ops' = Append(ops, Called("save", arg', ret'))
    /\ UNCHANGED Rest

\* lines 43-48
delete ==
    /\ pc = "repo"
    /\ Len(ops) < MaxOps
    /\ \E entity_id \in IDS :
         /\ arg' = entity_id
         /\ IF entity_id \in Keys(_storage)
            THEN /\ _storage' = DelItem(_storage, entity_id)
                 /\ ret' = TRUE
            ELSE /\ _storage' = _storage
                 /\ ret' = FALSE
         /\ ops' = Append(ops, Called("delete", arg', ret'))
    /\ UNCHANGED Rest

\* lines 54-56
clear ==
    /\ pc = "repo"
    /\ Len(ops) < MaxOps
    /\ _storage' = <<>>
    /\ arg' = <<>>
    /\ ret' = None
    /\ ops' = Append(ops, Called("clear", arg', ret'))
    /\ UNCHANGED Rest

NextRepo ==
    \/ save
    \/ delete
    \/ clear

SpecRepo == InitRepo /\ [][NextRepo]_vars

(***************************************************************************)
(* Properties of clean().                                                  *)
(***************************************************************************)
\* an invocation of clean() has computed its candidates
Started == pc \in {"dirs", "files", "summary", "done"}

\* the running or last invocation had candidates and has returned
RanToEnd == pc = "done" /\ (dirs # <<>> \/ files # <<>>)

\* the proper ancestors of a path
Ancestors(p) == { SubSeq(p, 1, n) : n \in 1..(Len(p) - 1) }

\* the name matches one of the patterns of a table, "*" standing for any
\* run of characters
MatchesAny(table, name) == \E i \in 1..Len(table) : Fnmatch(table[i], name)

\* C1: a run with dry_run set leaves the filesystem as it found it: at
\* every point of the run, and after it, the existing files and directories
\* and their contents are those of the start of the run, with or without
\* --all.
C1_DryRunKeepsDisk == (Started /\ dry_run) => disk = disk0

\* a dry run that listed a directory and a file candidate has returned
C1_Witness ==
    /\ RanToEnd
    /\ dry_run
    /\ dirs # <<>>
    /\ files # <<>>
    /\ \E i \in 1..Len(out) : out[i].line = "would_free"

\* C6: no file candidate that lies inside, at any depth, a directory of the
\* final directory set is in the file list that clean() reports and deletes
\* on its own, and every file of that list has no directory candidate among
\* its ancestors.
C6_NoFileInsideCandidateDir ==
    Started =>
        /\ \A f \in Range(all_files) :
              (Ancestors(f) \cap Range(dirs) # {}) => f \notin Range(files)
        /\ \A f \in Range(files) : Ancestors(f) \cap Range(dirs) = {}

\* a file candidate two levels inside a directory candidate, its own
\* directory not being one, was left out of the file list
C6_Witness ==
    /\ RanToEnd
    /\ \E f \in Range(all_files) :
          /\ Len(f) = 3
          /\ f \notin Range(files)
          /\ Ancestors(f) \cap Range(dirs) = { <<f[1]>> }

\* C9: a failed deletion does not stop the run.  No error leaves clean();
\* when a run without dry_run has returned, rmtree was called once for
\* every directory candidate and then unlink once for every file
\* candidate, in order, every candidate that is still there has its
\* "Failed to remove" line, and the last line printed is the summary.
C9_FailureDoesNotStopRun ==
    /\ pc # "raised"
    /\ (RanToEnd /\ ~dry_run) =>
          /\ [i \in 1..Len(calls) |-> calls[i].path] = dirs \o files
          /\ \A i \in 1..Len(calls) :
                calls[i].op = (IF i <= Len(dirs) THEN "rmtree" ELSE "unlink")
          /\ \A c \in Range(dirs) \cup Range(files) :
                Exists(disk, c) =>
                    \E i \in 1..Len(out) :
                        out[i].line = "failed" /\ out[i].path = c
          /\ out[Len(out)].line = "freed"

\* a deletion was refused, a later candidate was deleted all the same, and
\* the run has returned
C9_Witness ==
    /\ RanToEnd
    /\ ~dry_run
    /\ \E i \in 1..Len(out) :
          /\ out[i].line = "failed"
          /\ out[i].err = "EACCES"
          /\ \E j \in (i + 1)..Len(out) :
                /\ out[j].line \in {"dir", "file"}
                /\ ~Exists(disk, out[j].path)
                /\ Exists(disk0, out[j].path)

\* C2: no path found by the directory or file search whose name matches a
\* preservation pattern is in the deletion set of find_dirs_to_clean or
\* find_files_to_clean, whether or not the name also matches a cleanup
\* pattern.
C2_PreservedNeverCandidate ==
    Started =>
        \A p \in Range(dirs) \cup Range(all_files) :
            ~MatchesAny(PRESERVE_PATTERNS, BaseName(p))

\* C3: in any run of clean(), every file or directory whose name is one of
\* the preserved names still exists afterwards, wherever it lies in the
\* tree, inside a directory with a cleanup name included.
C3_PreservedNeverDeleted ==
    Started =>
        \A p \in DOMAIN disk0 :
            MatchesAny(PRESERVE_PATTERNS, BaseName(p)) => Exists(disk, p)

\* C4: should_preserve(path) is true exactly when the name of path matches
\* at least one pattern of PRESERVE_PATTERNS, a pattern without "*" by
\* equality and "*" standing for any, possibly empty, string; a name of the
\* form X.local.Y is preserved.
C4_ShouldPreserveIsWildcardMatch ==
    pc = "returned" => (ret = MatchesAny(PRESERVE_PATTERNS, arg))

\* C5: in a run without --all no directory or file candidate has .venv as
\* a path component, so nothing at or under a .venv directory is listed or
\* deleted; in a run with --all an existing root/.venv is in the directory
\* candidate set.
C5_VenvAsClaimed ==
    Started =>
        /\ ~include_venv =>
              /\ \A c \in Range(dirs) \cup Range(files) : ~InVenv(c)
              /\ \A p \in DOMAIN disk0 : InVenv(p) => Exists(disk, p)
        /\ (include_venv /\ Exists(disk0, <<VENV>>)) => <<VENV>> \in Range(dirs)

\* C5, amended: in a run without --all no directory or file candidate has
\* .venv as a path component, so nothing at or under root/.venv is listed
\* or deleted; in a run with --all a root/.venv that is a directory is in
\* the directory candidate set.
C5_VenvProtected ==
    Started =>
        /\ ~include_venv =>
              /\ \A c \in Range(dirs) \cup Range(files) : ~InVenv(c)
              /\ \A p \in DOMAIN disk0 : p[1] = VENV => Exists(disk, p)
        /\ (include_venv /\ IsDir(disk0, <<VENV>>)) => <<VENV>> \in Range(dirs)

\* a run without --all removed a candidate and went past a cleanup
\* directory under root/.venv, which is still there
C5_Witness ==
    /\ RanToEnd
    /\ ~include_venv
    /\ ~dry_run
    /\ \E c \in Range(dirs) \cup Range(files) : ~Exists(disk, c)
    /\ \E p \in DOMAIN disk :
          /\ Len(p) = 2
          /\ p[1] = VENV
          /\ IsDir(disk, p)
          /\ MatchesAny(DIRS_TO_CLEAN, p[2])

\* a directory with a cleanup directory name, or a regular file with a
\* cleanup file name, at the start of the run
Artifact(p) ==
    \/ IsDir(disk0, p) /\ MatchesAny(DIRS_TO_CLEAN, BaseName(p))
    \/ IsFile(disk0, p) /\ MatchesAny(FILES_TO_CLEAN, BaseName(p))

PlainAfterPlain ==
    /\ Started
    /\ ~dry_run
    /\ ~include_venv
    /\ LET n == IF pc = "done" THEN Len(history) - 1 ELSE Len(history)
       IN /\ n >= 1
          /\ ~history[n].dry_run
          /\ ~history[n].include_venv

\* whether a deletion was refused in the invocation before the running or
\* last one
RefusedBefore ==
    history[IF pc = "done" THEN Len(history) - 1 ELSE Len(history)].denied

\* the invocation found nothing: no candidates, "Already clean", nothing
\* deleted
AlreadyClean ==
    /\ dirs = <<>>
    /\ all_files = <<>>
    /\ files = <<>>
    /\ pc = "done"
    /\ out = <<[line |-> "already_clean"]>>
    /\ calls = <<>>
    /\ disk = disk0

RECURSIVE BigLeq(_, _)
BigLeq(a, b) ==
    LET n == IF Len(a) > Len(b) THEN Len(a) ELSE Len(b)
        x == IF n <= Len(a) THEN a[n] ELSE 0
        y == IF n <= Len(b) THEN b[n] ELSE 0
        cut(d) == IF n <= Len(d) THEN SubSeq(d, 1, n - 1) ELSE d
    IN IF n = 0 THEN TRUE
       ELSE IF x # y THEN x < y
       ELSE BigLeq(cut(a), cut(b))

\* m * 1024^k, for a small m
Scaled(m, k) == [i \in 1..k |-> 0] \o ToDigits(m)

\* m * ds, for a small m
Times(m, ds) ==
    LET r == Carry([i \in 1..Len(ds) |-> m * ds[i]], 0)
    IN r.rest \o ToDigits(r.carry)

ALL_UNITS == UNITS \o <<LAST_UNIT>>

\* the number of divisions by 1024 that the unit of the result stands for
Steps == CHOOSE k \in 0..(Len(ALL_UNITS) - 1) : ALL_UNITS[k + 1] = ret.unit

\* the value shown, in tenths
Shown == 10 * ret.whole + ret.tenth

\* the value shown is the byte count divided Steps times by 1024, to the
\* nearest tenth
ShowsScaledValue ==
    /\ ret.tenth \in 0..9
    /\ ret.whole >= 0
    /\ Shown = 0 \/ BigLeq(Scaled(2 * Shown - 1, Steps), Times(20, arg))
    /\ BigLeq(Times(20, arg), Scaled(2 * Shown + 1, Steps))

\* the byte count divided k times by 1024 is below 1024
ScaledBelow1024(k) == ~BigLeq(Scaled(1, k + 1), arg)

TenBytes == <<10, 0, 0, 0, 0, 0>>

TenBytesShown == arg = TenBytes => ret = [whole |-> 10, tenth |-> 0, unit |-> "B"]

\* C10: for every byte count n >= 0, format_size(n) picks the largest unit
\* of B, KB, MB, GB, TB at which the scaled value (n divided by 1024 once
\* per unit step) is below 1024, and shows that scaled value with that
\* unit; 10 bytes is shown as "10.0 B".
C10_LargestUnitAsClaimed ==
    pc = "returned" =>
        /\ ScaledBelow1024(Steps)
        /\ \A j \in (Steps + 1)..(Len(ALL_UNITS) - 1) : ~ScaledBelow1024(j)
        /\ ShowsScaledValue
        /\ TenBytesShown

\* C10, amended: for every byte count n >= 0, format_size(n) picks the
\* smallest unit of B, KB, MB, GB at which the scaled value (n divided by
\* 1024 once per unit step) is below 1024, or TB when there is none, and
\* shows that scaled value, to one decimal, with that unit; 10 bytes is
\* shown as "10.0 B".
C10_SmallestUnit ==
    pc = "returned" =>
        /\ Steps < Len(UNITS) => ScaledBelow1024(Steps)
        /\ \A j \in 0..(Steps - 1) : ~ScaledBelow1024(j)
        /\ ShowsScaledValue
        /\ TenBytesShown

\* format_size has returned "10.0 B" for 10 bytes
C10_Witness ==
    /\ pc = "returned"
    /\ arg = TenBytes
    /\ ret.unit = "B"
    /\ Shown = 100

\* no deletion of the running or last invocation failed
NoFailure == \A i \in 1..Len(out) : out[i].line # "failed"

\* the regular files of the start of the invocation that the invocation
\* removes, or would remove: the file candidates left after the orphan
\* filter and the files below a directory candidate, each one once
RemovedFiles ==
    { q \in DOMAIN disk0 :
        /\ IsFile(disk0, q)
        /\ (q \in Range(files) \/ is_inside_any_dir(q, dirs)) }

\* C13: with no deletion failure, the total a run of clean() prints is the
\* sum of the sizes of the distinct regular files it removes, or would
\* remove in a dry run: no file is counted twice, so that a dry run and a
\* real run on the same tree print the same total, also when a directory
\* candidate lies inside another one
C13_TotalIsSumOfRemovedFiles ==
    (RanToEnd /\ NoFailure) => total_size = SumSizes(disk0, RemovedFiles)

\* C14: in a run without --dry-run no directory candidate lies inside
\* another directory candidate, and no deletion is attempted on a path that
\* an earlier step of the run removed, so that no "Failed to remove" line
\* comes from a parent candidate deleted first
C14_NoDeletionOfRemovedPath ==
    (Started /\ ~dry_run)
      => /\ \A i, j \in 1..Len(dirs) :
              i # j => ~RelativeTo(dirs[j], dirs[i])
         /\ \A i \in 1..Len(out) :
              out[i].line = "failed" => out[i].err # "ENOENT"

(***************************************************************************)
(* Properties of InMemoryRepository.                                       *)
(***************************************************************************)
\* the entity of the most recent save of entity_id that no delete(entity_id)
\* and no clear came after, None if there is none, read off the operations
RECURSIVE LastSaved(_, _)
LastSaved(called, entity_id) ==
    IF called = <<>> THEN None
    ELSE LET last == called[Len(called)]
             before == SubSeq(called, 1, Len(called) - 1)
         IN CASE last.op = "clear" -> None
              [] last.op = "delete" ->
                   IF last.arg = entity_id THEN None
                   ELSE LastSaved(before, entity_id)
              [] last.op = "save" ->
                   IF HasId(last.arg) /\ last.arg.id = entity_id THEN last.arg
                   ELSE LastSaved(before, entity_id)

\* this step is a call of op
Calls(op) == Len(ops') = Len(ops) + 1 /\ ops'[Len(ops')].op = op

\* C11, queries: after any sequence of save, delete and clear, find_by_id
\* returns the entity of the most recent save of that id that no delete of
\* the id and no clear came after, None if there is none, and exists is
\* true exactly when there is one
C11_QueriesFollowLastSave ==
    \A entity_id \in IDS :
      /\ find_by_id(_storage, entity_id) = LastSaved(ops, entity_id)
      /\ exists(_storage, entity_id) <=> LastSaved(ops, entity_id) # None

\* C11, replacement: a save of an entity whose id is stored makes it the
\* stored entity and leaves the number of entities of find_all unchanged
C11_SaveReplaces ==
    (Calls("save") /\ HasId(arg') /\ exists(_storage, arg'.id))
      => /\ find_by_id(_storage', arg'.id) = arg'
         /\ Len(find_all(_storage')) = Len(find_all(_storage))

\* C11: in the in-memory repository find_by_id and exists follow the most
\* recent save of the id unless a delete of the id or a clear came after
\* it, and a save of a stored id replaces the entity and keeps the number
\* of entities of find_all
C11_SaveThenFind == []C11_QueriesFollowLastSave /\ [][C11_SaveReplaces]_vars

\* an entity was saved, saved again under another name, and an entity of
\* another id was saved and deleted
C11_Witness ==
    /\ Len(ops) = 4
    /\ ops[1].op = "save" /\ ops[1].ret = [id |-> "id2", name |-> "n1"]
    /\ ops[2].op = "save" /\ ops[2].ret = [id |-> "id1", name |-> "n1"]
    /\ ops[3].op = "save" /\ ops[3].ret = [id |-> "id1", name |-> "n2"]
    /\ ops[4].op = "delete" /\ ops[4].arg = "id2"
    /\ find_by_id(_storage, "id1") = [id |-> "id1", name |-> "n2"]
    /\ find_by_id(_storage, "id2") = None
    /\ Len(find_all(_storage)) = 1

\* C12: delete(id) returns True exactly when id is stored at the call;
\* afterwards find_by_id(id) is None and exists(id) is False, what is stored
\* under every other id is unchanged, and a delete of an id that is not
\* stored returns False and leaves the storage unchanged
C12_DeleteStep ==
    Calls("delete")
      => /\ ret' = exists(_storage, arg')
         /\ find_by_id(_storage', arg') = None
         /\ ~exists(_storage', arg')
         /\ \A other \in IDS \ {arg'} :
              /\ find_by_id(_storage', other) = find_by_id(_storage, other)
              /\ exists(_storage', other) = exists(_storage, other)
         /\ ~exists(_storage, arg') => ret' = FALSE /\ _storage' = _storage

C12_DeleteFrame == [][C12_DeleteStep]_vars

\* a delete returned True and left the entity of the other id, stored after
\* it, in place
C12_Witness ==
    /\ ops # <<>>
    /\ ops[Len(ops)].op = "delete"
    /\ ops[Len(ops)].ret = TRUE
    /\ ops[Len(ops)].arg = "id1"
    /\ \E i, j \in DOMAIN ops :
         /\ i < j
         /\ ops[i].op = "save" /\ HasId(ops[i].arg) /\ ops[i].arg.id = "id1"
         /\ ops[j].op = "save" /\ HasId(ops[j].arg) /\ ops[j].arg.id = "id2"
    /\ exists(_storage, "id2")

====
